---- MODULE Spec2Model ----
(***************************************************************************)
(* Cloud control plane of hanzoai/agent: CloudManager, the AWS and K8s     *)
(* provisioners, the dedicated-host handling for macOS, the store and the  *)
(* CloudInstanceMonitor.                                                   *)
(*                                                                         *)
(* Every user request runs in a slot and is split at its accesses to the   *)
(* store: another goroutine may run between a read and the write that      *)
(* follows it.  The monitor goroutine runs one tick at a time; a tick is   *)
(* one step made of its four passes in order.                              *)
(*                                                                         *)
(* Spec is the manager serving one request at a time beside the monitor,   *)
(* the provider and the clock; SpecConcurrent is two CreateInstance        *)
(* requests at once; FairSpec is macOS creates and terminates with the     *)
(* ticker, the clock and the request in flight going on.  The other        *)
(* specifications take one part of the program each: the accrual loop step *)
(* by step, the tick pass by pass, the seeding of hosts, the event bus and *)
(* its stream clients, the monitor's loop and Stop, creates whose store     *)
(* write fails, and two mutations or two creates at once.                  *)
(*                                                                         *)
(* Timestamps are kept as ages (now - t), saturated at a cap above every   *)
(* threshold they are compared with, so that "time advances" never ends.   *)
(***************************************************************************)
EXTENDS Integers, FiniteSets, Sequences, TLC

\* ---------------------------------------------------------------- bounds
MaxInstancesPerTeam == 2   \* max_instances_per_team
MinHostAllocation == 1     \* aws.macos.min_host_allocation, in time units
ProvisioningTimeout == 0   \* provisioning_timeout, in time units
MaxAccrued == 2            \* accrued_cost_cents is tracked up to this value
BufferSize == 2            \* NewEventBus(200)
ChanCap == 2               \* make(chan CloudEvent, 32)
MaxPublishes == 4          \* events published in a run
MaxStops == 3              \* calls of CloudInstanceMonitor.Stop in a run

IdleHostRelease == MinHostAllocation + 1   \* "1 hour after 24h min"
MonitorIntervalSec == 30
HostAgeCap == IdleHostRelease + 1
CreatedAgeCap == ProvisioningTimeout + 1

InstIds == {1, 2}                         \* the uuids the provisioners draw
Subscribers == {"x", "y"}                 \* the subscriptions there may be
HostIds == {"h1", "h2"}                  \* the dedicated host ids there are
Slots == {"a", "b"}
Registered == {"linux", "macos"}          \* platforms with a provisioner
Platforms == Registered \cup {"windows"}
NoTime == -1

\* ------------------------------------------------------------- the state
VARIABLES
    enabled,     \* CloudConfig.Enabled
    store,       \* cloud_instances table: id -> record (state "absent": no row)
    hosts,       \* dedicated_hosts table: host -> record
    backend,     \* what EC2 / the cluster holds for an id
    published,   \* the events the last step handed to EventBus.Publish,
                 \* as (type, instance id)
    slot,        \* the requests in flight
    last,        \* what the last step returned to a caller, and what that
                 \* request did on its way
    nextId,      \* next uuid
    bus,         \* the EventBus: ring buffer, subscribers, a Publish in flight
    mon          \* the CloudInstanceMonitor: its loop, stop channel, ticker
                 \* and configuration

vars == <<enabled, store, hosts, backend, published, slot, last, nextId, bus, mon>>

NoInst == [state |-> "absent", platform |-> "none", host |-> "none", rate |-> 0,
           accrued |-> 0, createdAge |-> 0, provisioned |-> FALSE,
           terminatedAt |-> FALSE]
NoHost == [state |-> "none", cur |-> 0, allocAge |-> NoTime, released |-> FALSE]
NoBackend == [state |-> "none", platform |-> "none", host |-> "none"]
IdleSlot == [op |-> "idle", pc |-> "done", id |-> 0, inst |-> NoInst, hid |-> "none",
             hrec |-> NoHost, bill |-> "none", rate |-> 0, fx |-> {},
             list |-> [i \in InstIds |-> NoInst]]
NoRequest == [op |-> "idle", result |-> "none", fx |-> {}]

Min(a, b) == IF a < b THEN a ELSE b
Older(age, cap) == IF age = NoTime THEN NoTime ELSE Min(age + 1, cap)

\* ---------------------------------------------------------------- store
\* a count of every row, whatever its state
CountEveryRow(st) == Cardinality({i \in InstIds : st[i].state # "absent"})

\* a count that forgets the instances not yet running
CountRunningOnly(st) == Cardinality({i \in InstIds : st[i].state = "running"})

\* gorm Save: every column of the row is written from the caller's copy;
\* created_at belongs to the row.
UpdateCloudInstance(st, id, inst) ==
    [st EXCEPT ![id] = [inst EXCEPT !.createdAge =
                           IF st[id].state = "absent" THEN 0 ELSE st[id].createdAge]]

\* a create that stores the provisioner's record without the billing stamp
CreateCloudInstanceUnstamped(st, id, inst) ==
    IF st[id].state = "absent"
    THEN [st EXCEPT ![id] = [inst EXCEPT !.createdAge = 0, !.rate = 0]]
    ELSE st

\* gorm Create: a second row with the same primary key is refused.
CreateCloudInstance(st, id, inst) ==
    IF st[id].state = "absent" THEN [st EXCEPT ![id] = [inst EXCEPT !.createdAge = 0]]
    ELSE st

ListCloudInstances(st, state) == {i \in InstIds : st[i].state = state}

CountCloudInstancesByTeam(st) ==
    Cardinality({i \in InstIds : st[i].state \notin {"absent", "terminated", "failed"}})

\* store.GetAvailableDedicatedHost; of several available hosts the query
\* takes the least recently updated, here any of them
GetAvailableDedicatedHost(hs) == {h \in HostIds : hs[h].state = "available" /\ hs[h].cur = 0}

\* -------------------------------------------------------------- backends
ProviderOf(platform) == IF platform = "linux" THEN "k8s" ELSE "aws"

\* describeInstanceByTag lists pending, running, stopping and stopped
\* instances only; findPodByInstanceID lists every pod that exists.
Visible(b) ==
    IF b.platform = "linux" THEN b.state \in {"pending", "running"}
    ELSE b.state \in {"pending", "running", "stopped"}

\* ec2StateToInstanceState / podPhaseToState
LiveState(b) ==
    CASE b.state = "pending" -> "provisioning"
      [] b.state = "running" -> "running"
      [] b.state = "stopped" -> "stopped"
      [] b.state = "terminated" -> "terminated"
      [] OTHER -> "failed"

\* Provisioner.GetInstance: the record a provisioner builds from what it finds
LiveInstance(b) ==
    [NoInst EXCEPT !.state = LiveState(b), !.platform = b.platform, !.host = b.host]

\* ---------------------------------------------------------------- billing
BillingResponses == {"authorized", "denied", "unreachable"}

\* platformHourlyCents: the rates the billing service quotes
platformHourlyCents(p) ==
    CASE p = "macos" -> 120
      [] p = "windows" -> 10
      [] p = "linux" -> 1
      [] OTHER -> 10

\* a client that reports an unreachable service as a denial
AuthorizeUnreachableAsDenied(resp, rate) ==
    [err |-> FALSE, authorized |-> (resp = "authorized"), hourly |-> rate]

\* HTTPBillingClient.AuthorizeProvisioning: an error when the service cannot
\* be reached, else the decoded answer
AuthorizeProvisioning(resp, rate) ==
    IF resp = "unreachable" THEN [err |-> TRUE, authorized |-> FALSE, hourly |-> 0]
    ELSE [err |-> FALSE, authorized |-> (resp = "authorized"), hourly |-> rate]

\* a gate that fails open: an unreachable billing service lets the request on
BillingGateFailOpen(auth) ==
    IF ~auth.err /\ ~auth.authorized THEN "billing-not-authorized" ELSE "none"

\* CloudManager.CreateInstance, the billing gate: the error of the request,
\* "none" when it may go on
BillingGate(auth) ==
    IF auth.err THEN "billing-service-unavailable"
    ELSE IF ~auth.authorized THEN "billing-not-authorized"
    ELSE "none"

\* an emit that publishes nothing
EmitNothing(type, id) == published' = {}

\* EventBus.EmitInstanceEvent
Emit(type, id) == published' = {<<type, id>>}

\* the request of slot s returns
Finish(s, r, result, fx) ==
    /\ slot' = [slot EXCEPT ![s] = IdleSlot]
    /\ last' = [op |-> r.op, result |-> result, fx |-> r.fx \cup fx]

Goto(s, r, pc, fx) ==
    /\ slot' = [slot EXCEPT ![s] = [r EXCEPT !.pc = pc, !.fx = r.fx \cup fx]]
    /\ last' = NoRequest

\* a request takes the first free slot (slots are interchangeable)
Free(s) == slot[s].op = "idle" /\ (s = "b" => slot["a"].op # "idle")
At(s, ops, pc) == slot[s].op \in ops /\ slot[s].pc = pc
New(op, id) == [IdleSlot EXCEPT !.op = op, !.pc = "begin", !.id = id]

\* a lookup that finds a provisioner for every platform
getProvisionerForAny(platform) == TRUE

\* CloudManager.getProvisioner
getProvisioner(platform) == platform \in Registered

\* ------------------------------------------------ dedicated hosts (macOS)
\* releaseDedicatedHost, the minimum allocation check
MayRelease(h) == h.allocAge = NoTime \/ ~(h.allocAge < MinHostAllocation)

\* releaseDedicatedHost, the record it saves
Released(h) == [h EXCEPT !.state = "available", !.cur = 0, !.released = TRUE]

\* the dedicated_hosts table with no row
NoHosts == [h \in HostIds |-> NoHost]

\* store.CreateDedicatedHost: gorm Create of a new row
CreateDedicatedHost(hs, id) ==
    IF hs[id].state = "none" THEN [hs EXCEPT ![id] = [NoHost EXCEPT !.state = "available"]]
    ELSE hs

\* a seeding that writes the record of every configured id anew
RECURSIVE SeedAfresh(_, _)
SeedAfresh(ids, hs) ==
    IF ids = <<>> THEN hs
    ELSE SeedAfresh(Tail(ids), [hs EXCEPT ![Head(ids)] = [NoHost EXCEPT !.state = "available"]])

\* Provisioner.SeedDedicatedHosts: for each configured host id in turn, list
\* the hosts and create a record in state available unless one has that id
RECURSIVE SeedDedicatedHosts(_, _)
SeedDedicatedHosts(ids, hs) ==
    IF ids = <<>> THEN hs
    ELSE SeedDedicatedHosts(Tail(ids),
             IF \E h \in HostIds : hs[h].state # "none" /\ h = Head(ids)
             THEN hs
             ELSE CreateDedicatedHost(hs, Head(ids)))

\* the dedicated_host_ids lists a configuration may hold
DedicatedHostIDs ==
    {<<>>, <<"h1">>, <<"h2">>, <<"h1", "h2">>, <<"h2", "h1">>, <<"h1", "h1">>,
     <<"h1", "h2", "h1">>}

\* the table of a control plane configured with one host
SeededAtStart == SeedDedicatedHosts(<<"h1">>, NoHosts)

\* an allocation that leaves allocated_at as it was
AllocatedUnstamped(h, id) == [h EXCEPT !.state = "allocated", !.cur = id]

\* acquireDedicatedHost, the record it saves
Allocated(h, id) == [h EXCEPT !.state = "allocated", !.cur = id, !.allocAge = 0]

\* ------------------------------------------------- CloudManager.CreateInstance
CreateInstance(s, platform, resp) ==
    /\ Free(s)
    /\ LET r == [New("create", 0) EXCEPT !.inst = [NoInst EXCEPT !.platform = platform]]
           auth == AuthorizeProvisioning(resp, platformHourlyCents(platform))
       IN
       IF ~enabled THEN
           /\ Finish(s, r, "cloud-disabled", {})
           /\ published' = {}
           /\ UNCHANGED nextId
       ELSE IF CountCloudInstancesByTeam(store) >= mon.maxPerTeam THEN
           /\ Finish(s, r, "max-instances-reached", {"store"})
           /\ published' = {}
           /\ UNCHANGED nextId
       ELSE IF BillingGate(auth) # "none" THEN
           /\ Finish(s, [r EXCEPT !.bill = resp], BillingGate(auth), {"store", "billing"})
           /\ published' = {}
           /\ UNCHANGED nextId
       ELSE IF ~getProvisioner(platform) THEN
           /\ Finish(s, [r EXCEPT !.bill = resp], "invalid-platform", {"store", "billing"})
           /\ published' = {}
           /\ UNCHANGED nextId
       ELSE
           /\ nextId \in InstIds
           /\ Emit("instance.requested", 0)
           /\ nextId' = nextId + 1
           /\ Goto(s, [r EXCEPT !.bill = resp, !.rate = auth.hourly, !.id = nextId],
                   IF platform = "macos" THEN "acquire" ELSE "launch",
                   {"store", "billing", "event", "provisioner"})
    /\ UNCHANGED <<enabled, bus, mon, store, hosts, backend>>

\* acquireDedicatedHost: store.GetAvailableDedicatedHost
acquireDedicatedHost(s) ==
    /\ At(s, {"create"}, "acquire")
    /\ LET r == slot[s]
           avail == GetAvailableDedicatedHost(hosts)
       IN
       IF avail = {} THEN Finish(s, r, "no-available-host", {})
       ELSE \E h \in avail :
               Goto(s, [r EXCEPT !.hid = h, !.hrec = hosts[h]], "allocate", {})
    /\ published' = {}
    /\ UNCHANGED <<enabled, bus, mon, store, hosts, backend, nextId>>

\* acquireDedicatedHost: store.UpdateDedicatedHost of the host it read
allocateDedicatedHost(s) ==
    /\ At(s, {"create"}, "allocate")
    /\ LET r == slot[s]
           h == Allocated(r.hrec, r.id)
       IN
       /\ hosts' = [hosts EXCEPT ![r.hid] = h]
       /\ Goto(s, [r EXCEPT !.hrec = h], "launch", {"write"})
    /\ published' = {}
    /\ UNCHANGED <<enabled, bus, mon, store, backend, nextId>>

\* launchMacOSInstance / K8s CreateInstance: the backend call (RunInstances,
\* Pods.Create), which fails or succeeds
launchInstance(s, ok) ==
    /\ At(s, {"create"}, "launch")
    /\ LET r == slot[s]
           mac == r.inst.platform = "macos"
           inst == [r.inst EXCEPT !.state = "provisioning",
                                  !.host = IF mac THEN r.hid ELSE "none"]
       IN
       IF ok THEN
           /\ backend' = [backend EXCEPT ![r.id] =
                  [state |-> "pending", platform |-> r.inst.platform, host |-> inst.host]]
           /\ Goto(s, [r EXCEPT !.inst = inst], IF mac THEN "assign" ELSE "persist", {"backend"})
       ELSE
           /\ UNCHANGED backend
           /\ IF mac THEN Goto(s, r, "release", {"backend"})
              ELSE Finish(s, r, "provisioning-failed", {"backend"})
    /\ published' = {}
    /\ UNCHANGED <<enabled, bus, mon, store, hosts, nextId>>

\* launchMacOSInstance: "Update host with instance assignment"
assignDedicatedHost(s) ==
    /\ At(s, {"create"}, "assign")
    /\ LET r == slot[s]
           h == [r.hrec EXCEPT !.cur = r.id, !.state = "allocated"]
       IN
       /\ hosts' = [hosts EXCEPT ![r.hid] = h]
       /\ Goto(s, [r EXCEPT !.hrec = h], "persist", {})
    /\ published' = {}
    /\ UNCHANGED <<enabled, bus, mon, store, backend, nextId>>

\* releaseDedicatedHost: store.GetDedicatedHost and the minimum allocation
\* check.  Its callers drop the error it returns.
releaseDedicatedHost(s) ==
    /\ At(s, {"create", "terminate"}, "release")
    /\ LET r == slot[s]
           h == hosts[r.hid]
       IN
       IF MayRelease(h) THEN Goto(s, [r EXCEPT !.hrec = h], "released", {})
       ELSE IF r.op = "create" THEN Finish(s, r, "provisioning-failed", {})
       ELSE Goto(s, r, "writeback", {})
    /\ published' = {}
    /\ UNCHANGED <<enabled, bus, mon, store, hosts, backend, nextId>>

\* releaseDedicatedHost: store.UpdateDedicatedHost of the host it read
saveReleasedHost(s) ==
    /\ At(s, {"create", "terminate"}, "released")
    /\ LET r == slot[s] IN
       /\ hosts' = [hosts EXCEPT ![r.hid] = Released(r.hrec)]
       /\ IF r.op = "create" THEN Finish(s, r, "provisioning-failed", {})
          ELSE Goto(s, r, "writeback", {})
    /\ published' = {}
    /\ UNCHANGED <<enabled, bus, mon, store, backend, nextId>>

\* CloudManager.CreateInstance: billing metadata, store.CreateCloudInstance,
\* instance.provisioning
persistInstance(s) ==
    /\ At(s, {"create"}, "persist")
    /\ LET r == slot[s]
           inst == [r.inst EXCEPT !.rate = r.rate]
       IN
       /\ store' = CreateCloudInstance(store, r.id, inst)
       /\ Emit("instance.provisioning", r.id)
       /\ Finish(s, r, "ok", {"write"})
    /\ UNCHANGED <<enabled, bus, mon, hosts, backend, nextId>>

\* CloudManager.CreateInstance with store.CreateCloudInstance returning an
\* error: the error is logged, instance.provisioning is published and the
\* instance is returned
persistInstanceFails(s) ==
    /\ At(s, {"create"}, "persist")
    /\ LET r == slot[s] IN
       /\ Emit("instance.provisioning", r.id)
       /\ Finish(s, r, "ok", {"write-failed"})
    /\ UNCHANGED <<enabled, bus, mon, store, hosts, backend, nextId>>

\* ------------------------------------------- CloudManager, by instance id
\* CloudManager.GetInstance: the store first, then the provisioners
GetInstance(st, be, id) ==
    IF st[id].state # "absent" THEN st[id]
    ELSE IF Visible(be[id]) THEN LiveInstance(be[id])
    ELSE NoInst

\* resolveInstance without the master switch
resolveInstanceUnchecked(st, be, id) ==
    IF GetInstance(st, be, id).state = "absent" THEN "instance-not-found"
    ELSE IF ~getProvisioner(GetInstance(st, be, id).platform) THEN "invalid-platform"
    ELSE "none"

\* CloudManager.resolveInstance: the error, "none" when instance and
\* provisioner are found
resolveInstance(st, be, id) ==
    IF ~enabled THEN "cloud-disabled"
    ELSE IF GetInstance(st, be, id).state = "absent" THEN "instance-not-found"
    ELSE IF ~getProvisioner(GetInstance(st, be, id).platform) THEN "invalid-platform"
    ELSE "none"

\* what resolveInstance touches on its way
ResolveEffects(st, id) ==
    IF ~enabled THEN {}
    ELSE IF st[id].state # "absent" THEN {"store"}
    ELSE {"store", "provisioner"}

\* the state a successful Start / Stop / Terminate saves
TargetState(op) ==
    CASE op = "start" -> "running"
      [] op = "stop" -> "stopped"
      [] op = "terminate" -> "terminated"

\* Provisioner.StartInstance / StopInstance / TerminateInstance of the
\* platform's provisioner: the error before any change ("none": the provider
\* is asked).  K8s has no start; otherwise the instance must be found.
CallError(op, platform, b) ==
    IF op = "start" /\ platform = "linux" THEN "unsupported"
    ELSE IF ~(b.platform = platform /\ Visible(b)) THEN "instance-not-found"
    ELSE "none"

\* the backend after a successful call
BackendAfter(op, b) ==
    IF b.platform = "linux" THEN NoBackend      \* the pod is deleted
    ELSE CASE op = "start" -> IF b.state = "stopped" THEN [b EXCEPT !.state = "pending"] ELSE b
           [] op = "stop" -> [b EXCEPT !.state = "stopped"]
           [] op = "terminate" -> [b EXCEPT !.state = "terminated"]

\* the event CloudManager publishes after a successful call
EventOf(op) ==
    CASE op = "start" -> {}
      [] op = "stop" -> {"instance.stopped"}
      [] op = "terminate" -> {"instance.terminated"}

Mutations == {"start", "stop", "terminate"}

\* StartInstance / StopInstance / TerminateInstance: resolveInstance
BeginMutation(s, op, id) ==
    /\ Free(s)
    /\ LET r == New(op, id)
           err == resolveInstance(store, backend, id)
           fx == ResolveEffects(store, id)
       IN
       IF err # "none" THEN Finish(s, r, err, fx)
       ELSE Goto(s, [r EXCEPT !.inst = [GetInstance(store, backend, id) EXCEPT !.createdAge = 0]],
                 "call", fx)
    /\ published' = {}
    /\ UNCHANGED <<enabled, bus, mon, store, hosts, backend, nextId>>

\* StartInstance / StopInstance / TerminateInstance: the provisioner call,
\* which fails or succeeds at the provider
CallProvisioner(s, ok) ==
    /\ At(s, Mutations, "call")
    /\ LET r == slot[s]
           b == backend[r.id]
       IN
       IF CallError(r.op, r.inst.platform, b) # "none" THEN
           /\ Finish(s, r, CallError(r.op, r.inst.platform, b), {"provisioner"})
           /\ UNCHANGED backend
       ELSE IF ~ok THEN
           /\ Finish(s, r, "provider-error", {"provisioner", "backend"})
           /\ UNCHANGED backend
       ELSE
           /\ backend' = [backend EXCEPT ![r.id] = BackendAfter(r.op, b)]
           /\ IF r.op = "terminate" /\ b.platform = "macos" /\ b.host # "none"
              THEN Goto(s, [r EXCEPT !.hid = b.host], "release", {"provisioner", "backend"})
              ELSE Goto(s, r, "writeback", {"provisioner", "backend"})
    /\ published' = {}
    /\ UNCHANGED <<enabled, bus, mon, store, hosts, nextId>>

\* StartInstance / StopInstance / TerminateInstance: store.UpdateCloudInstance
\* of the record resolveInstance returned, and the event
SaveMutation(s) ==
    /\ At(s, Mutations, "writeback")
    /\ LET r == slot[s] IN
       /\ store' = UpdateCloudInstance(store, r.id, [r.inst EXCEPT !.state = TargetState(r.op)])
       /\ published' = {<<e, r.id>> : e \in EventOf(r.op)}
       /\ Finish(s, r, "ok", {"write"} \cup (IF EventOf(r.op) = {} THEN {} ELSE {"event"}))
    /\ UNCHANGED <<enabled, bus, mon, hosts, backend, nextId>>

\* GetConnectionInfo / ExecuteCommand / GetLogs: resolveInstance, then the
\* provisioner
Queries == {"connect", "exec", "logs"}

QueryInstance(s, op, id) ==
    /\ Free(s)
    /\ LET r == New(op, id)
           err == resolveInstance(store, backend, id)
           fx == ResolveEffects(store, id)
       IN
       IF err # "none" THEN Finish(s, r, err, fx)
       ELSE IF ~Visible(backend[id]) THEN Finish(s, r, "instance-not-found", fx \cup {"provisioner"})
       ELSE Finish(s, r, "ok", fx \cup {"provisioner", "backend"})
    /\ published' = {}
    /\ UNCHANGED <<enabled, bus, mon, store, hosts, backend, nextId>>

\* CloudManager.GetInstance as a request
ReadInstance(s, id) ==
    /\ Free(s)
    /\ LET r == New("get", id) IN
       IF ~enabled THEN Finish(s, r, "cloud-disabled", {})
       ELSE IF GetInstance(store, backend, id).state = "absent"
       THEN Finish(s, r, "instance-not-found", {"store", "provisioner"})
       ELSE Finish(s, r, "ok", ResolveEffects(store, id))
    /\ published' = {}
    /\ UNCHANGED <<enabled, bus, mon, store, hosts, backend, nextId>>

\* CloudManager.ListInstances / GetSummary
ReadAll(s, op) ==
    /\ Free(s)
    /\ LET r == New(op, 0) IN
       IF ~enabled THEN Finish(s, r, "cloud-disabled", {})
       ELSE Finish(s, r, "ok", {"store"})
    /\ published' = {}
    /\ UNCHANGED <<enabled, bus, mon, store, hosts, backend, nextId>>

\* --------------------------------------------------- CloudInstanceMonitor
\* A pass works on w = [store, hosts, backend, published], published being
\* the events of the tick so far.

\* the hourly rates a billing authorization may quote, and the monitor
\* intervals (seconds) a configuration may set
Rates == (1..12) \cup {120, 180, 200, 360}
Intervals == {1, 30, 60, 130, 900, 3600}

\* the (rate, interval) pairs above for which the float64 product
\* float64(rate) * interval.Hours() falls just below the whole number the
\* exact product is, so that int() gives one less
FloatShort == {<<360, 130>>}

\* the cents of an interval without the minimum of one cent
costCentsNoMinimum(rate, sec) == (rate * sec) \div 3600

\* accrueUsageCosts: costCents := int(float64(rate) * intervalHours), at
\* least 1
costCents(rate, sec) ==
    LET exact == (rate * sec) \div 3600
        c == IF <<rate, sec>> \in FloatShort THEN exact - 1 ELSE exact
    IN IF c < 1 THEN 1 ELSE c

\* accrueUsageCosts: the cents of one interval of the monitor
AccrualCents(rate) == costCents(rate, mon.interval)

\* Provisioner.TerminateInstance, "Release dedicated host if macOS"
ReleaseHostOf(hs, b) ==
    IF b.platform = "macos" /\ b.host # "none" /\ MayRelease(hs[b.host])
    THEN [hs EXCEPT ![b.host] = Released(hs[b.host])]
    ELSE hs

\* a cutoff that takes in the instance created exactly the timeout ago
StaleAtTimeout(inst) == inst.createdAge >= ProvisioningTimeout

\* cleanupStaleProvisioning, the cutoff: created_at before now - timeout
Stale(inst) == inst.createdAge > ProvisioningTimeout

\* a cleanup that logs the failed terminate and saves the record as it was
MarkFailedUnsaved(inst) == inst

\* cleanupStaleProvisioning, what it saves when TerminateInstance failed
MarkFailed(inst) == [inst EXCEPT !.state = "failed"]

\* cleanupStaleProvisioning for one listed instance; ok: the provider accepts
\* the terminate call
cleanupOne(w, i, ok) ==
    LET inst == w.store[i]
        b == w.backend[i]
        err == IF resolveInstance(w.store, w.backend, i) # "none" THEN TRUE
               ELSE IF CallError("terminate", inst.platform, b) # "none" THEN TRUE
               ELSE ~ok
    IN
    IF ~Stale(inst) THEN w
    ELSE IF err THEN
        [w EXCEPT !.store = UpdateCloudInstance(@, i, MarkFailed(inst)),
                  !.published = @ \cup {<<"instance.failed", i>>}]
    ELSE
        [w EXCEPT !.backend = [@ EXCEPT ![i] = BackendAfter("terminate", b)],
                  !.hosts = ReleaseHostOf(@, b),
                  !.store = UpdateCloudInstance(@, i, [inst EXCEPT !.state = "terminated"]),
                  !.published = @ \cup {<<"instance.terminated", i>>, <<"instance.failed", i>>}]

\* the records a pass lists, newest first
Newest(S) == CHOOSE x \in S : \A y \in S : y <= x

RECURSIVE cleanupStaleProvisioning(_, _, _)
cleanupStaleProvisioning(w, S, ok) ==
    IF S = {} THEN w
    ELSE cleanupStaleProvisioning(cleanupOne(w, Newest(S), ok[Newest(S)]), S \ {Newest(S)}, ok)

\* the states syncInstanceStates lists
SyncedStates == {"running"}

\* a sync that logs the change and saves nothing
syncOneUnsaved(w, i) == w

\* syncInstanceStates for one listed instance
syncOne(w, i) ==
    LET inst == w.store[i]
        b == w.backend[i]
        live == LiveState(b)
        evt == CASE live = "running" -> {<<"instance.running", i>>}
                 [] live = "terminated" -> {<<"instance.terminated", i>>}
                 [] live = "failed" -> {<<"instance.failed", i>>}
                 [] OTHER -> {}
    IN
    IF ~getProvisioner(inst.platform) THEN w
    ELSE IF ~(b.platform = inst.platform /\ Visible(b)) THEN w
    ELSE IF live = inst.state THEN w
    ELSE [w EXCEPT !.store = UpdateCloudInstance(@, i,
                        [inst EXCEPT !.state = live,
                                     !.terminatedAt = @ \/ (live = "terminated"),
                                     !.provisioned = @ \/ (live = "running")]),
                   !.published = @ \cup evt]

RECURSIVE syncInstanceStates(_, _)
syncInstanceStates(w, S) ==
    IF S = {} THEN w
    ELSE syncInstanceStates(syncOne(w, Newest(S)), S \ {Newest(S)})

\* accrueUsageCosts for one listed instance
accrueOne(w, i) ==
    LET inst == w.store[i] IN
    IF inst.rate <= 0 THEN w
    ELSE [w EXCEPT !.store = UpdateCloudInstance(@, i,
              [inst EXCEPT !.accrued = Min(@ + AccrualCents(inst.rate), MaxAccrued)])]

RECURSIVE accrueUsageCosts(_, _)
accrueUsageCosts(w, S) ==
    IF S = {} THEN w
    ELSE accrueUsageCosts(accrueOne(w, Newest(S)), S \ {Newest(S)})

\* releaseIdleHosts: the hosts it releases
IdleHost(h) ==
    /\ h.state = "allocated" /\ h.cur = 0
    /\ h.allocAge # NoTime
    /\ h.allocAge > IdleHostRelease

releaseIdleHosts(w) ==
    [w EXCEPT !.hosts = [h \in HostIds |->
                            IF IdleHost(@[h]) THEN [@[h] EXCEPT !.state = "available",
                                                                !.released = TRUE]
                            ELSE @[h]],
              !.published = @ \cup (IF \E h \in HostIds : IdleHost(w.hosts[h])
                                    THEN {<<"host.released", 0>>} ELSE {})]

\* a tick that accrues before it syncs
tickAccrueFirst(w, ok) ==
    LET w1 == cleanupStaleProvisioning(w, ListCloudInstances(w.store, "provisioning"), ok)
        w2 == accrueUsageCosts(w1, ListCloudInstances(w1.store, "running"))
        w3 == syncInstanceStates(w2, UNION {ListCloudInstances(w2.store, st) : st \in SyncedStates})
    IN releaseIdleHosts(w3)

\* CloudInstanceMonitor.tick: the four passes in order
tick(w, ok) ==
    LET w1 == cleanupStaleProvisioning(w, ListCloudInstances(w.store, "provisioning"), ok)
        w2 == syncInstanceStates(w1, UNION {ListCloudInstances(w1.store, st) : st \in SyncedStates})
        w3 == accrueUsageCosts(w2, ListCloudInstances(w2.store, "running"))
    IN releaseIdleHosts(w3)

World == [store |-> store, hosts |-> hosts, backend |-> backend, published |-> {}]

Tick(ok) ==
    /\ LET w == tick(World, ok) IN
       /\ store' = w.store
       /\ hosts' = w.hosts
       /\ backend' = w.backend
       /\ published' = w.published
    /\ last' = NoRequest
    /\ UNCHANGED <<enabled, bus, mon, slot, nextId>>

\* the four passes of tick, in order
NextPass(p) ==
    CASE p = "cleanup" -> "sync"
      [] p = "sync" -> "accrue"
      [] p = "accrue" -> "release"
      [] p = "release" -> "select"

\* The passes of a tick as the steps of the monitor's goroutine, requests
\* running between them: mon.loop names the pass that is next, published
\* holds the events of the pass.
cleanupPass(ok) ==
    /\ mon.loop = "cleanup"
    /\ LET w == cleanupStaleProvisioning(World, ListCloudInstances(store, "provisioning"), ok) IN
       /\ store' = w.store
       /\ hosts' = w.hosts
       /\ backend' = w.backend
       /\ published' = w.published
    /\ mon' = [mon EXCEPT !.loop = NextPass(@)]
    /\ last' = NoRequest
    /\ UNCHANGED <<enabled, bus, slot, nextId>>

syncPass ==
    /\ mon.loop = "sync"
    /\ LET w == syncInstanceStates(World, UNION {ListCloudInstances(store, st) : st \in SyncedStates}) IN
       /\ store' = w.store
       /\ published' = w.published
    /\ mon' = [mon EXCEPT !.loop = NextPass(@)]
    /\ last' = NoRequest
    /\ UNCHANGED <<enabled, bus, hosts, backend, slot, nextId>>

accruePass ==
    /\ mon.loop = "accrue"
    /\ store' = accrueUsageCosts(World, ListCloudInstances(store, "running")).store
    /\ published' = {}
    /\ mon' = [mon EXCEPT !.loop = NextPass(@)]
    /\ last' = NoRequest
    /\ UNCHANGED <<enabled, bus, hosts, backend, slot, nextId>>

releasePass ==
    /\ mon.loop = "release"
    /\ LET w == releaseIdleHosts(World) IN
       /\ hosts' = w.hosts
       /\ published' = w.published
    /\ mon' = [mon EXCEPT !.loop = NextPass(@)]
    /\ last' = NoRequest
    /\ UNCHANGED <<enabled, bus, store, backend, slot, nextId>>

\* ------------------------------------------------------------ environment
\* the provider brings a pending instance up
BackendRuns(i) ==
    /\ backend[i].state = "pending"
    /\ backend' = [backend EXCEPT ![i].state = "running"]
    /\ published' = {}
    /\ last' = NoRequest
    /\ UNCHANGED <<enabled, bus, mon, store, hosts, slot, nextId>>

\* accrueUsageCosts, step by step beside the requests (slot "b" holds the
\* goroutine of the monitor): store.ListCloudInstances(running), the result
\* being kept in list
listForAccrual(s) ==
    /\ slot[s].op = "idle"
    /\ ListCloudInstances(store, "running") # {}
    /\ slot' = [slot EXCEPT ![s] =
                  [New("accrue", 0) EXCEPT
                      !.pc = "loop",
                      !.list = [i \in InstIds |->
                                   IF i \in ListCloudInstances(store, "running")
                                   THEN [store[i] EXCEPT !.createdAge = 0]
                                   ELSE NoInst]]]
    /\ last' = NoRequest
    /\ published' = {}
    /\ UNCHANGED <<enabled, bus, mon, store, hosts, backend, nextId>>

\* the instances of the list the loop has not come to yet
Listed(r) == {i \in InstIds : r.list[i].state # "absent"}

\* a loop that a failing ReportUsage ends
RemainingUnlessFailed(list, i, ok) ==
    IF ok THEN [list EXCEPT ![i] = NoInst] ELSE [j \in InstIds |-> NoInst]

\* accrueUsageCosts: what is left of the list after the instance i, whose
\* ReportUsage succeeded or failed ("continue" in either case)
Remaining(list, i, ok) == [list EXCEPT ![i] = NoInst]

\* accrueUsageCosts: the loop takes the next listed instance (newest first),
\* skipping one without a rate, or ends
takeListed(s) ==
    /\ At(s, {"accrue"}, "loop")
    /\ LET r == slot[s] IN
       IF Listed(r) = {} THEN slot' = [slot EXCEPT ![s] = IdleSlot]
       ELSE LET i == Newest(Listed(r)) IN
            IF r.list[i].rate <= 0
            THEN slot' = [slot EXCEPT ![s] = [r EXCEPT !.list = Remaining(@, i, TRUE)]]
            ELSE slot' = [slot EXCEPT ![s] = [r EXCEPT !.id = i, !.inst = r.list[i],
                                                       !.pc = "charge"]]
    /\ last' = NoRequest
    /\ published' = {}
    /\ UNCHANGED <<enabled, bus, mon, store, hosts, backend, nextId>>

\* accrueUsageCosts: inst.AccruedCostCents += costCents and
\* store.UpdateCloudInstance of the listed record
saveAccrued(s) ==
    /\ At(s, {"accrue"}, "charge")
    /\ LET r == slot[s] IN
       /\ store' = UpdateCloudInstance(store, r.id,
                      [r.inst EXCEPT !.accrued = Min(@ + AccrualCents(r.inst.rate), MaxAccrued)])
       /\ slot' = [slot EXCEPT ![s] = [r EXCEPT !.pc = "report", !.fx = @ \cup {"write"}]]
    /\ last' = NoRequest
    /\ published' = {}
    /\ UNCHANGED <<enabled, bus, mon, hosts, backend, nextId>>

\* accrueUsageCosts: billing.ReportUsage with the interval and the rate of
\* the listed record, which succeeds or fails; the loop goes on.  rate and
\* bill keep what was reported and how it went.
reportUsage(s, ok) ==
    /\ At(s, {"accrue"}, "report")
    /\ LET r == slot[s] IN
       /\ slot' = [slot EXCEPT ![s] =
                     [r EXCEPT !.pc = "loop", !.rate = r.inst.rate,
                               !.bill = IF ok THEN "reported" ELSE "report-failed",
                               !.list = Remaining(@, r.id, ok)]]
       /\ last' = [op |-> "accrue",
                   result |-> IF ok THEN "usage-reported" ELSE "usage-report-failed",
                   fx |-> {"billing"}]
    /\ published' = {}
    /\ UNCHANGED <<enabled, bus, mon, store, hosts, backend, nextId>>

\* accrueUsageCosts for the running instance i in one step, the usage
\* reported and the sum as the program keeps it
AccrualPass(i) ==
    /\ store[i].state = "running"
    /\ store[i].rate > 0
    /\ store[i].accrued < MaxAccrued
    /\ store' = [store EXCEPT ![i].accrued = @ + AccrualCents(store[i].rate)]
    /\ published' = {}
    /\ last' = [op |-> "accrue", result |-> "usage-reported", fx |-> {"billing"}]
    /\ UNCHANGED <<enabled, bus, mon, hosts, backend, slot, nextId>>

\* the control plane is started with a dedicated_host_ids list and seeds
\* the table
Seed(ids) ==
    /\ \A s \in Slots : slot[s].op = "idle"
    /\ hosts' = SeedDedicatedHosts(ids, hosts)
    /\ published' = {}
    /\ last' = NoRequest
    /\ UNCHANGED <<enabled, bus, mon, store, backend, slot, nextId>>

\* ------------------------------------------------------------- EventBus
\* Events are numbered in the order Publish appends them to the buffer.
NoLimit == -2
Limits == (-1) .. (MaxPublishes + 1)

\* a subscription: not made, in the map with an open channel, or removed
\* with its channel closed; seen is the last event its reader took.  For the
\* subscription of an event stream, replayed says that the recent events
\* were written and sent is what was written to the client, in order.
NoSubscriber == [state |-> "none", ch |-> <<>>, seen |-> 0, replayed |-> FALSE,
                 sent |-> <<>>]

NewEventBus ==
    [buffer |-> <<>>, count |-> 0,
     subscribers |-> [x \in Subscribers |-> NoSubscriber],
     pc |-> "idle", event |-> 0, subs |-> {}, todo |-> {}, got |-> {}, full |-> {},
     out |-> "none", limit |-> NoLimit, recent |-> <<>>]

\* what a step of the bus leaves of the last Recent call
Quiet(b) == [b EXCEPT !.limit = NoLimit, !.recent = <<>>]

\* Publish: "Add to ring buffer"
append(buffer, e) ==
    Append(IF Len(buffer) >= BufferSize THEN Tail(buffer) ELSE buffer, e)

\* a Recent that copies from the start of the buffer
RecentOldest(buffer, limit) ==
    LET n == IF limit <= 0 \/ limit > Len(buffer) THEN Len(buffer) ELSE limit
    IN SubSeq(buffer, 1, n)

\* EventBus.Recent
Recent(buffer, limit) ==
    LET n == IF limit <= 0 \/ limit > Len(buffer) THEN Len(buffer) ELSE limit
        start == Len(buffer) - n
    IN SubSeq(buffer, start + 1, Len(buffer))

managerVars == <<enabled, store, hosts, backend, published, slot, last, nextId, mon>>

\* EventBus.Subscribe
Subscribe(x) ==
    /\ bus.subscribers[x].state = "none"
    /\ bus' = [Quiet(bus) EXCEPT !.subscribers[x].state = "open"]
    /\ UNCHANGED managerVars

\* EventBus.Unsubscribe: close(ch) and delete, under the lock
Unsubscribe(x) ==
    /\ bus.subscribers[x].state = "open"
    /\ bus' = [Quiet(bus) EXCEPT !.subscribers[x].state = "closed"]
    /\ UNCHANGED managerVars

\* a channel that hands out its newest element first
sendFirst(ch, e) == <<e>> \o ch

\* ch <- event on a buffered channel
send(ch, e) == Append(ch, e)

\* the subscriber's goroutine takes an event from its channel
Receive(x) ==
    /\ bus.subscribers[x].ch # <<>>
    /\ bus' = [Quiet(bus) EXCEPT !.subscribers[x].seen = Head(bus.subscribers[x].ch),
                                 !.subscribers[x].ch = Tail(@)]
    /\ UNCHANGED managerVars

\* EventBus.Publish, under the lock: the ring buffer and the copy of the
\* subscribers
PublishLocked ==
    /\ bus.pc = "idle"
    /\ bus.count < MaxPublishes
    /\ LET e == bus.count + 1
           subs == {x \in Subscribers : bus.subscribers[x].state = "open"}
       IN bus' = [Quiet(bus) EXCEPT !.buffer = append(@, e), !.count = e, !.event = e,
                                    !.subs = subs, !.todo = subs, !.got = {}, !.full = {},
                                    !.out = IF subs = {} THEN "returned" ELSE "none",
                                    !.pc = IF subs = {} THEN "idle" ELSE "send"]
    /\ UNCHANGED managerVars

\* EventBus.Publish, after the lock: the select on one copied channel.  A
\* send on a channel Unsubscribe has closed panics, and Publish is over.
PublishSend(x) ==
    /\ bus.pc = "send"
    /\ x \in bus.todo
    /\ LET sub == bus.subscribers[x]
           rest == bus.todo \ {x}
           b == Quiet(bus)
       IN
       IF sub.state = "closed" THEN
           bus' = [b EXCEPT !.pc = "idle", !.todo = {}, !.out = "panic"]
       ELSE IF Len(sub.ch) < ChanCap THEN
           bus' = [b EXCEPT !.subscribers[x].ch = send(@, bus.event),
                            !.got = @ \cup {x}, !.todo = rest,
                            !.out = IF rest = {} THEN "returned" ELSE "none",
                            !.pc = IF rest = {} THEN "idle" ELSE "send"]
       ELSE
           bus' = [b EXCEPT !.full = @ \cup {x}, !.todo = rest,
                            !.out = IF rest = {} THEN "returned" ELSE "none",
                            !.pc = IF rest = {} THEN "idle" ELSE "send"]
    /\ UNCHANGED managerVars

\* EventBus.Recent as a call
ReadRecent(limit) ==
    /\ bus' = [bus EXCEPT !.limit = limit, !.recent = Recent(bus.buffer, limit)]
    /\ UNCHANGED managerVars

\* StreamEventsHandler: the number of recent events a new stream begins with
StreamRecentLimit == 20

\* StreamEventsHandler, after Subscribe: "Send recent events as initial batch"
StreamRecent(x) ==
    /\ bus.subscribers[x].state = "open"
    /\ ~bus.subscribers[x].replayed
    /\ bus' = [Quiet(bus) EXCEPT !.subscribers[x].replayed = TRUE,
                                 !.subscribers[x].sent = Recent(bus.buffer, StreamRecentLimit)]
    /\ UNCHANGED managerVars

\* StreamEventsHandler, "Stream new events": case event, ok := <-ch writes
\* the event to the client
StreamEvent(x) ==
    /\ bus.subscribers[x].state = "open"
    /\ bus.subscribers[x].replayed
    /\ bus.subscribers[x].ch # <<>>
    /\ bus' = [Quiet(bus) EXCEPT !.subscribers[x].seen = Head(bus.subscribers[x].ch),
                                 !.subscribers[x].sent = Append(@, Head(bus.subscribers[x].ch)),
                                 !.subscribers[x].ch = Tail(@)]
    /\ UNCHANGED managerVars

\* ------------------------------------------- CloudInstanceMonitor, the loop
\* loop: where the goroutine of Start is ("none": not started; "select": at
\* the select; a pass of tick; "exited").  closes counts the close(stopCh)
\* executed, stops the Stop calls that have returned, ticker says whether
\* ticker.C holds a tick.  call is where each caller of Stop is, done and
\* lock are the flag and the mutex of stopOnce.  interval (seconds) and
\* maxPerTeam are MonitorInterval and MaxInstancesPerTeam of the CloudConfig
\* the monitor is made with, which is the manager's.
Callers == {"p", "q"}

NewCloudInstanceMonitor ==
    [loop |-> "none", done |-> FALSE, lock |-> "none", closed |-> FALSE, closes |-> 0,
     stops |-> 0, ticker |-> FALSE, call |-> [c \in Callers |-> "idle"],
     interval |-> MonitorIntervalSec, maxPerTeam |-> MaxInstancesPerTeam]

busVars == <<enabled, store, hosts, backend, published, slot, last, nextId, bus>>

\* a Once that runs its function for every caller
doEveryTime(m) == TRUE

\* sync.Once.Do: the function is run only while done is not set
doOnce(m) == ~m.done

\* CloudInstanceMonitor.Start: the ticker is made and the loop begins
MonitorStart ==
    /\ mon.loop = "none"
    /\ mon' = [mon EXCEPT !.loop = "select"]
    /\ UNCHANGED busVars

\* the ticker puts a tick in ticker.C
TickerFires ==
    /\ mon.loop \notin {"none", "exited"}
    /\ ~mon.ticker
    /\ mon' = [mon EXCEPT !.ticker = TRUE]
    /\ UNCHANGED busVars

\* the select takes case <-ticker.C and calls m.tick(); when stopCh is
\* closed as well, select picks either ready case
LoopTick ==
    /\ mon.loop = "select"
    /\ mon.ticker
    /\ mon' = [mon EXCEPT !.ticker = FALSE, !.loop = "cleanup"]
    /\ UNCHANGED busVars

\* m.tick(): one pass returns and the next begins, or the loop is back at
\* the select
TickPass ==
    /\ mon.loop \in {"cleanup", "sync", "accrue", "release"}
    /\ mon' = [mon EXCEPT !.loop = NextPass(@)]
    /\ UNCHANGED busVars

\* the select takes case <-m.stopCh and Start returns
LoopExit ==
    /\ mon.loop = "select"
    /\ mon.closed
    /\ mon' = [mon EXCEPT !.loop = "exited", !.ticker = FALSE]
    /\ UNCHANGED busVars

\* the Stop calls made so far
StopCalls == mon.stops + Cardinality({c \in Callers : mon.call[c] # "idle"})

\* CloudInstanceMonitor.Stop is called
MonitorStop(c) ==
    /\ mon.call[c] = "idle"
    /\ StopCalls < MaxStops
    /\ mon' = [mon EXCEPT !.call[c] = "do"]
    /\ UNCHANGED busVars

\* stopOnce.Do: with done set the call returns; otherwise the caller takes
\* the mutex of the Once, waiting while another holds it
OnceEnter(c) ==
    /\ mon.call[c] = "do"
    /\ mon.lock = "none"
    /\ IF doOnce(mon)
       THEN mon' = [mon EXCEPT !.call[c] = "close", !.lock = c]
       ELSE mon' = [mon EXCEPT !.call[c] = "idle", !.stops = @ + 1]
    /\ UNCHANGED busVars

\* stopOnce.Do: close(m.stopCh), done is set, the mutex is released and
\* Stop returns
CloseStopCh(c) ==
    /\ mon.call[c] = "close"
    /\ mon' = [mon EXCEPT !.closed = TRUE, !.closes = @ + 1, !.done = TRUE,
                          !.lock = "none", !.call[c] = "idle", !.stops = @ + 1]
    /\ UNCHANGED busVars

\* one time unit passes: every timestamp is one unit older
AdvanceTime ==
    /\ store' = [i \in InstIds |->
                    IF store[i].state = "absent" THEN store[i]
                    ELSE [store[i] EXCEPT !.createdAge = Older(@, CreatedAgeCap)]]
    /\ hosts' = [h \in HostIds |-> [hosts[h] EXCEPT !.allocAge = Older(@, HostAgeCap)]]
    /\ slot' = [s \in Slots |-> [slot[s] EXCEPT !.hrec.allocAge = Older(@, HostAgeCap)]]
    /\ published' = {}
    /\ last' = NoRequest
    /\ UNCHANGED <<enabled, bus, mon, backend, nextId>>

Init ==
    /\ enabled \in BOOLEAN
    /\ store = [i \in InstIds |-> NoInst]
    /\ hosts = SeededAtStart
    /\ backend = [i \in InstIds |-> NoBackend]
    /\ published = {}
    /\ slot = [s \in Slots |-> IdleSlot]
    /\ last = NoRequest
    /\ nextId = 1
    /\ bus = NewEventBus
    /\ mon = NewCloudInstanceMonitor

\* the steps of the request in slot s after its first
Proceed(s) ==
    \/ acquireDedicatedHost(s)
    \/ allocateDedicatedHost(s)
    \/ \E ok \in BOOLEAN : launchInstance(s, ok)
    \/ assignDedicatedHost(s)
    \/ releaseDedicatedHost(s)
    \/ saveReleasedHost(s)
    \/ persistInstance(s)
    \/ \E ok \in BOOLEAN : CallProvisioner(s, ok)
    \/ SaveMutation(s)

\* The manager serving one request at a time, beside the monitor goroutine,
\* the provider and the clock.
Next ==
    \/ \E p \in Platforms, resp \in BillingResponses : CreateInstance("a", p, resp)
    \/ \E op \in Mutations, i \in InstIds : BeginMutation("a", op, i)
    \/ \E op \in Queries, i \in InstIds : QueryInstance("a", op, i)
    \/ \E i \in InstIds : ReadInstance("a", i)
    \/ \E op \in {"list", "summary"} : ReadAll("a", op)
    \/ Proceed("a")
    \/ \E ok \in [InstIds -> BOOLEAN] : Tick(ok)
    \/ \E i \in InstIds : BackendRuns(i)
    \/ AdvanceTime

Spec == Init /\ [][Next]_vars

\* Two CreateInstance requests at once, and the clock.
NextConcurrent ==
    \/ \E s \in Slots, p \in Platforms, resp \in BillingResponses :
            CreateInstance(s, p, resp)
    \/ \E s \in Slots : acquireDedicatedHost(s)
    \/ \E s \in Slots : allocateDedicatedHost(s)
    \/ \E s \in Slots, ok \in BOOLEAN : launchInstance(s, ok)
    \/ \E s \in Slots : assignDedicatedHost(s)
    \/ \E s \in Slots : releaseDedicatedHost(s)
    \/ \E s \in Slots : saveReleasedHost(s)
    \/ \E s \in Slots : persistInstance(s)
    \/ AdvanceTime

SpecConcurrent == Init /\ [][NextConcurrent]_vars

\* macOS instances created and terminated one request at a time, beside the
\* monitor, the provider and the clock
NextHosts ==
    \/ \E resp \in BillingResponses : CreateInstance("a", "macos", resp)
    \/ \E i \in InstIds : BeginMutation("a", "terminate", i)
    \/ Proceed("a")
    \/ \E ok \in [InstIds -> BOOLEAN] : Tick(ok)
    \/ \E i \in InstIds : BackendRuns(i)
    \/ AdvanceTime

\* The monitor's ticker fires every interval, the clock runs, and a request
\* in flight goes on.
FairSpec ==
    /\ Init /\ [][NextHosts]_vars
    /\ WF_vars(\E ok \in [InstIds -> BOOLEAN] : Tick(ok))
    /\ WF_vars(AdvanceTime)
    /\ WF_vars(Proceed("a"))

\* macOS instances created, started, stopped and terminated one request at a
\* time, beside the monitor's accrual pass taken step by step (slot "b"),
\* the provider and the clock
NextAccrual ==
    \/ CreateInstance("a", "macos", "authorized")
    \/ \E op \in Mutations, i \in InstIds : BeginMutation("a", op, i)
    \/ Proceed("a")
    \/ listForAccrual("b")
    \/ takeListed("b")
    \/ saveAccrued("b")
    \/ \E ok \in BOOLEAN : reportUsage("b", ok)
    \/ \E i \in InstIds : BackendRuns(i)
    \/ AdvanceTime

SpecAccrual == Init /\ [][NextAccrual]_vars

\* A control plane that starts with an empty dedicated_hosts table and is
\* started again and again with some dedicated_host_ids list, serving macOS
\* creates and terminates one request at a time
InitUnseeded ==
    /\ enabled = TRUE
    /\ store = [i \in InstIds |-> NoInst]
    /\ hosts = NoHosts
    /\ backend = [i \in InstIds |-> NoBackend]
    /\ published = {}
    /\ slot = [s \in Slots |-> IdleSlot]
    /\ last = NoRequest
    /\ nextId = 1
    /\ bus = NewEventBus
    /\ mon = NewCloudInstanceMonitor

NextSeeded ==
    \/ \E ids \in DedicatedHostIDs : Seed(ids)
    \/ CreateInstance("a", "macos", "authorized")
    \/ \E i \in InstIds : BeginMutation("a", "terminate", i)
    \/ Proceed("a")
    \/ AdvanceTime

SpecSeeded == InitUnseeded /\ [][NextSeeded]_vars

\* The event bus with its publisher, its subscribers coming and going, and
\* readers of the recent events
NextBus ==
    \/ \E x \in Subscribers : Subscribe(x)
    \/ \E x \in Subscribers : Unsubscribe(x)
    \/ \E x \in Subscribers : Receive(x)
    \/ PublishLocked
    \/ \E x \in Subscribers : PublishSend(x)
    \/ \E limit \in Limits : ReadRecent(limit)

SpecBus == Init /\ [][NextBus]_vars

\* The monitor's goroutine, its ticker and the callers of Stop.  A pass that
\* has begun returns; a select with stopCh closed is left through one of its
\* ready cases, and Go picks among ready cases at random, so the stop case
\* is not passed over for ever.
NextMonitor ==
    \/ MonitorStart
    \/ TickerFires
    \/ LoopTick
    \/ TickPass
    \/ LoopExit
    \/ \E c \in Callers : MonitorStop(c)
    \/ \E c \in Callers : OnceEnter(c)
    \/ \E c \in Callers : CloseStopCh(c)

SpecMonitor ==
    /\ Init /\ [][NextMonitor]_vars
    /\ WF_vars(TickPass)
    /\ SF_vars(LoopExit)

\* A control plane configured with two dedicated hosts: macOS instances
\* created, started and stopped one request at a time, beside the monitor's
\* accrual pass taken step by step
InitTwoHosts ==
    /\ enabled = TRUE
    /\ store = [i \in InstIds |-> NoInst]
    /\ hosts = SeedDedicatedHosts(<<"h1", "h2">>, NoHosts)
    /\ backend = [i \in InstIds |-> NoBackend]
    /\ published = {}
    /\ slot = [s \in Slots |-> IdleSlot]
    /\ last = NoRequest
    /\ nextId = 1
    /\ bus = NewEventBus
    /\ mon = NewCloudInstanceMonitor

NextUsage ==
    \/ CreateInstance("a", "macos", "authorized")
    \/ \E op \in {"start", "stop"}, i \in InstIds : BeginMutation("a", op, i)
    \/ acquireDedicatedHost("a")
    \/ allocateDedicatedHost("a")
    \/ launchInstance("a", TRUE)
    \/ assignDedicatedHost("a")
    \/ persistInstance("a")
    \/ \E ok \in BOOLEAN : CallProvisioner("a", ok)
    \/ SaveMutation("a")
    \/ listForAccrual("b")
    \/ takeListed("b")
    \/ saveAccrued("b")
    \/ \E ok \in BOOLEAN : reportUsage("b", ok)

SpecUsage == InitTwoHosts /\ [][NextUsage]_vars

\* A running macOS instance whose authorization quoted any of the rates,
\* under a monitor configured with any of the intervals
InitRates ==
    /\ enabled = TRUE
    /\ \E r \in Rates :
          store = [i \in InstIds |->
                     IF i = 1 THEN [NoInst EXCEPT !.state = "running", !.platform = "macos",
                                                  !.host = "h1", !.rate = r,
                                                  !.provisioned = TRUE]
                     ELSE NoInst]
    /\ hosts = [SeededAtStart EXCEPT !["h1"] = Allocated(@, 1)]
    /\ backend = [i \in InstIds |->
                    IF i = 1 THEN [state |-> "running", platform |-> "macos", host |-> "h1"]
                    ELSE NoBackend]
    /\ published = {}
    /\ slot = [s \in Slots |-> IdleSlot]
    /\ last = NoRequest
    /\ nextId = 2
    /\ bus = NewEventBus
    /\ \E sec \in Intervals : mon = [NewCloudInstanceMonitor EXCEPT !.interval = sec]

NextCost == \E i \in InstIds : AccrualPass(i)

SpecCost == InitRates /\ [][NextCost]_vars

\* A control plane whose monitor is started: macOS instances created,
\* started, stopped and terminated one request at a time, beside the
\* monitor's tick taken pass by pass, the provider and the clock
InitStarted ==
    /\ enabled = TRUE
    /\ store = [i \in InstIds |-> NoInst]
    /\ hosts = SeededAtStart
    /\ backend = [i \in InstIds |-> NoBackend]
    /\ published = {}
    /\ slot = [s \in Slots |-> IdleSlot]
    /\ last = NoRequest
    /\ nextId = 1
    /\ bus = NewEventBus
    /\ mon = [NewCloudInstanceMonitor EXCEPT !.loop = "select"]

NextPasses ==
    \/ CreateInstance("a", "macos", "authorized")
    \/ \E op \in Mutations, i \in InstIds : BeginMutation("a", op, i)
    \/ Proceed("a")
    \/ TickerFires
    \/ LoopTick
    \/ \E ok \in [InstIds -> BOOLEAN] : cleanupPass(ok)
    \/ syncPass
    \/ accruePass
    \/ releasePass
    \/ \E i \in InstIds : BackendRuns(i)
    \/ AdvanceTime

SpecPasses == InitStarted /\ [][NextPasses]_vars

\* Creates whose store write may fail, one request at a time, beside the
\* monitor, the provider and the clock.  The ticker fires every interval,
\* the clock runs, the provider brings instances up and a request in flight
\* goes on; the store fails at a create only, so that every later write of
\* the monitor succeeds.
NextPersist ==
    \/ \E p \in Registered : CreateInstance("a", p, "authorized")
    \/ acquireDedicatedHost("a")
    \/ allocateDedicatedHost("a")
    \/ \E ok \in BOOLEAN : launchInstance("a", ok)
    \/ assignDedicatedHost("a")
    \/ releaseDedicatedHost("a")
    \/ saveReleasedHost("a")
    \/ persistInstance("a")
    \/ persistInstanceFails("a")
    \/ \E ok \in [InstIds -> BOOLEAN] : Tick(ok)
    \/ \E i \in InstIds : BackendRuns(i)
    \/ AdvanceTime

CreateGoesOn ==
    \/ acquireDedicatedHost("a")
    \/ allocateDedicatedHost("a")
    \/ \E ok \in BOOLEAN : launchInstance("a", ok)
    \/ assignDedicatedHost("a")
    \/ releaseDedicatedHost("a")
    \/ saveReleasedHost("a")
    \/ persistInstance("a")
    \/ persistInstanceFails("a")

FairPersist ==
    /\ InitStarted /\ [][NextPersist]_vars
    /\ WF_vars(\E ok \in [InstIds -> BOOLEAN] : Tick(ok))
    /\ WF_vars(AdvanceTime)
    /\ WF_vars(\E i \in InstIds : BackendRuns(i))
    /\ WF_vars(CreateGoesOn)

\* A running macOS instance on its host, and two requests at a time that
\* start, stop or terminate instances, beside the monitor, the provider and
\* the clock
InitOneRunning ==
    /\ enabled = TRUE
    /\ store = [i \in InstIds |->
                  IF i = 1 THEN [NoInst EXCEPT !.state = "running", !.platform = "macos",
                                               !.host = "h1",
                                               !.rate = platformHourlyCents("macos"),
                                               !.provisioned = TRUE]
                  ELSE NoInst]
    /\ hosts = [SeededAtStart EXCEPT !["h1"] = Allocated(@, 1)]
    /\ backend = [i \in InstIds |->
                    IF i = 1 THEN [state |-> "running", platform |-> "macos", host |-> "h1"]
                    ELSE NoBackend]
    /\ published = {}
    /\ slot = [s \in Slots |-> IdleSlot]
    /\ last = NoRequest
    /\ nextId = 2
    /\ bus = NewEventBus
    /\ mon = [NewCloudInstanceMonitor EXCEPT !.loop = "select"]

NextMutations ==
    \/ \E s \in Slots, op \in Mutations, i \in InstIds : BeginMutation(s, op, i)
    \/ \E s \in Slots, ok \in BOOLEAN : CallProvisioner(s, ok)
    \/ \E s \in Slots : releaseDedicatedHost(s)
    \/ \E s \in Slots : saveReleasedHost(s)
    \/ \E s \in Slots : SaveMutation(s)
    \/ \E ok \in [InstIds -> BOOLEAN] : Tick(ok)
    \/ \E i \in InstIds : BackendRuns(i)
    \/ AdvanceTime

SpecMutations == InitOneRunning /\ [][NextMutations]_vars

\* Two CreateInstance requests at once under a configuration that allows
\* one instance per team
InitOnePerTeam ==
    /\ enabled = TRUE
    /\ store = [i \in InstIds |-> NoInst]
    /\ hosts = SeededAtStart
    /\ backend = [i \in InstIds |-> NoBackend]
    /\ published = {}
    /\ slot = [s \in Slots |-> IdleSlot]
    /\ last = NoRequest
    /\ nextId = 1
    /\ bus = NewEventBus
    /\ mon = [NewCloudInstanceMonitor EXCEPT !.maxPerTeam = 1]

SpecOnePerTeam == InitOnePerTeam /\ [][NextConcurrent]_vars

\* The event bus with its publisher and the clients of the event stream,
\* each of which subscribes, is sent the recent events, is sent the events
\* of its channel and unsubscribes when it goes
NextStream ==
    \/ \E x \in Subscribers : Subscribe(x)
    \/ \E x \in Subscribers : StreamRecent(x)
    \/ \E x \in Subscribers : StreamEvent(x)
    \/ \E x \in Subscribers : Unsubscribe(x)
    \/ PublishLocked
    \/ \E x \in Subscribers : PublishSend(x)

SpecStream == Init /\ [][NextStream]_vars

\* ------------------------------------------------------------ properties
TickStep == \E ok \in [InstIds -> BOOLEAN] : Tick(ok)

BillingErrors == {"billing-service-unavailable", "billing-not-authorized"}

\* C1: in CreateInstance the provisioner is called only when billing
\* authorized this very request; a request that reaches the billing check and
\* gets any other answer (service unreachable, authorized = false) ends at
\* once with a billing error, having called no provisioner or backend and
\* written nothing to the store or the hosts.
BillingGatesProvisioning ==
    [][/\ \A s \in Slots, p \in Platforms, resp \in BillingResponses \ {"authorized"} :
            (/\ CreateInstance(s, p, resp)
             /\ enabled
             /\ CountCloudInstancesByTeam(store) < MaxInstancesPerTeam)
            => /\ slot'[s] = IdleSlot
               /\ last'.op = "create"
               /\ last'.result \in BillingErrors
               /\ last'.fx \cap {"provisioner", "backend", "write"} = {}
               /\ UNCHANGED <<store, hosts, backend>>
       /\ \A s \in Slots : slot'[s].op = "create" => slot'[s].bill = "authorized"
       /\ \A s \in Slots, ok \in BOOLEAN :
            launchInstance(s, ok) => slot[s].bill = "authorized"
      ]_vars

\* a create refused by billing, and nothing provisioned
BillingRefused ==
    /\ last.op = "create"
    /\ last.result \in BillingErrors
    /\ \A i \in InstIds : backend[i] = NoBackend /\ store[i] = NoInst

\* the create requests that hold the host acquireDedicatedHost returned
Acquired(s) ==
    /\ slot[s].op = "create"
    /\ slot[s].pc \in {"launch", "assign", "persist"}
    /\ slot[s].hid # "none"

\* C2: two macOS creates in flight that both got a host from
\* acquireDedicatedHost got different hosts.
DistinctHostsAcquired ==
    \A s, t \in Slots :
        (s # t /\ Acquired(s) /\ Acquired(t)) => slot[s].hid # slot[t].hid

\* C3: whenever a host goes from allocated to available, at least
\* min_allocation has passed since its allocated_at.
MinAllocationRespected ==
    [][\A h \in HostIds :
          (hosts[h].state = "allocated" /\ hosts'[h].state = "available")
          => (hosts[h].allocAge # NoTime /\ hosts[h].allocAge >= MinHostAllocation)
      ]_vars

\* C4: the accrued_cost_cents of a stored instance never decreases from one
\* step to the next.
AccruedNeverDecreases ==
    [][\A i \in InstIds : store'[i].accrued >= store[i].accrued]_vars

\* the state changes of a stored record the lifecycle allows; a record is
\* first stored as provisioning
AllowedTransitions ==
    {<<"absent", "provisioning">>,
     <<"provisioning", "running">>, <<"provisioning", "failed">>,
     <<"running", "stopped">>, <<"running", "terminated">>, <<"running", "failed">>,
     <<"stopped", "running">>, <<"stopped", "terminated">>}

\* C5: every change of a stored instance's state is one of the lifecycle's
\* transitions; in particular a terminated or failed record keeps its state.
LifecycleTransitionsOnly ==
    [][\A i \in InstIds :
          store'[i].state # store[i].state
          => <<store[i].state, store'[i].state>> \in AllowedTransitions
      ]_vars

\* C6: a monitor tick that starts with an instance stored as provisioning
\* whose backend reports running leaves it stored as running with
\* provisioned_at set, and publishes instance.running for it.
TickPromotesToRunning ==
    [][TickStep =>
          \A i \in InstIds :
              (store[i].state = "provisioning" /\ backend[i].state = "running")
              => /\ store'[i].state = "running"
                 /\ store'[i].provisioned
                 /\ <<"instance.running", i>> \in published'
      ]_vars

\* C7: a monitor tick that starts with an instance stored as provisioning
\* and created more than provisioning_timeout ago leaves it stored as
\* terminated or failed, whether the terminate call succeeds or not.
StaleProvisioningCleaned ==
    [][TickStep =>
          \A i \in InstIds :
              (store[i].state = "provisioning" /\ store[i].createdAge > ProvisioningTimeout)
              => store'[i].state \in {"terminated", "failed"}
      ]_vars

\* a tick has just marked a stale instance failed, its terminate having failed
StaleMarkedFailed ==
    \E i \in InstIds :
        /\ store[i].state = "failed"
        /\ store[i].createdAge > ProvisioningTimeout
        /\ published = {<<"instance.failed", i>>}

\* C8: a macOS create that acquired a host and fails at the launch returns
\* provisioning-failed with the host available again and bound to no instance.
HostReleasedOnLaunchFailure ==
    [][\A s \in Slots :
          (/\ slot[s].op = "create"
           /\ slot[s].pc \in {"release", "released"}
           /\ slot'[s].op = "idle")
          => /\ last'.result = "provisioning-failed"
             /\ hosts'[slot[s].hid].state = "available"
             /\ hosts'[slot[s].hid].cur = 0
      ]_vars

\* C9: once the backend has terminated a macOS instance, the host still
\* bound to that instance is eventually available and bound to no instance.
HostEventuallyReleased ==
    \A i \in InstIds, h \in HostIds :
        (backend[i].state = "terminated" /\ backend[i].host = h /\ hosts[h].cur = i)
        ~> (hosts[h].state = "available" /\ hosts[h].cur = 0)

\* C10: with the subsystem disabled every request returns cloud-disabled at
\* once, having touched neither store, billing, provisioner nor event bus.
DisabledDoesNothing ==
    ~enabled =>
        /\ last.op # "idle" => (last.result = "cloud-disabled" /\ last.fx = {})
        /\ \A s \in Slots : slot[s] = IdleSlot
        /\ published = {}
        /\ \A i \in InstIds : store[i] = NoInst /\ backend[i] = NoBackend
        /\ hosts = SeededAtStart

\* a request by instance id was refused by the master switch
DisabledRefused ==
    ~enabled /\ last.op = "logs" /\ last.result = "cloud-disabled"

\* the stored instances in a non-terminal state
ActiveInstances == {i \in InstIds : store[i].state \notin {"absent", "terminated", "failed"}}

UnreachableBillingRefuses ==
    [][\A s \in Slots, p \in Platforms :
          (/\ CreateInstance(s, p, "unreachable")
           /\ enabled
           /\ Cardinality(ActiveInstances) < MaxInstancesPerTeam)
          => /\ slot'[s] = IdleSlot
             /\ last'.result = "billing-service-unavailable"
             /\ last'.fx = {"store", "billing"}
             /\ UNCHANGED backend
      ]_vars

\* a create has just been refused because billing was unreachable
BillingUnavailableReturned ==
    last.op = "create" /\ last.result = "billing-service-unavailable" /\ last.fx = {"store", "billing"}

ChargedOnlyWhileRunning ==
    [][\A i \in InstIds :
          store'[i].accrued > store[i].accrued => store[i].state = "running"]_vars

\* C16: in every reachable state a dedicated host in state allocated has a
\* non-empty current_instance_id and a non-null allocated_at.
AllocatedHostIsStamped ==
    \A h \in HostIds :
        hosts[h].state = "allocated"
        => (hosts[h].cur \in InstIds /\ hosts[h].allocAge # NoTime)

\* a host that was released once and is allocated again
HostAllocatedAgain ==
    \E h \in HostIds :
        /\ hosts[h].state = "allocated"
        /\ hosts[h].released
        /\ hosts[h].cur \in InstIds

\* C17: a macOS create that finds no host in state available ends with
\* no-available-host, having launched no VM and changed no host record; one
\* that finds an available host changes exactly that one host from available
\* to allocated, with current_instance_id the new instance's id and
\* allocated_at set, changes no other host, and returns an instance whose
\* dedicated_host_id is that host.
CreateTakesOneAvailableHost ==
    [][\A s \in Slots :
          /\ (acquireDedicatedHost(s) /\ \A h \in HostIds : hosts[h].state # "available")
             => /\ slot'[s] = IdleSlot
                /\ last'.op = "create" /\ last'.result = "no-available-host"
                /\ last'.fx \cap {"backend", "write"} = {}
                /\ UNCHANGED <<hosts, backend, store>>
          /\ (acquireDedicatedHost(s) /\ \E h \in HostIds : hosts[h].state = "available")
             => /\ slot'[s].pc = "allocate"
                /\ hosts[slot'[s].hid].state = "available"
                /\ UNCHANGED hosts
          /\ allocateDedicatedHost(s)
             => /\ hosts[slot[s].hid].state = "available"
                /\ hosts'[slot[s].hid].state = "allocated"
                /\ hosts'[slot[s].hid].cur = slot[s].id
                /\ hosts'[slot[s].hid].allocAge # NoTime
                /\ \A g \in HostIds \ {slot[s].hid} : hosts'[g] = hosts[g]
          /\ (/\ slot[s].op = "create" /\ slot[s].inst.platform = "macos"
              /\ slot[s].pc \in {"launch", "assign", "persist"})
             => /\ \A g \in HostIds \ {slot[s].hid} : hosts'[g].state = hosts[g].state
                /\ hosts[slot[s].hid].state = "allocated"
                /\ hosts[slot[s].hid].cur = slot[s].id
          /\ (persistInstance(s) /\ slot[s].inst.platform = "macos")
             => /\ last'.result = "ok"
                /\ store'[slot[s].id].host = slot[s].hid
                /\ hosts'[slot[s].hid].state = "allocated"
                /\ hosts'[slot[s].hid].cur = slot[s].id
      ]_vars

\* C18: SeedDedicatedHosts leaves every record that already exists, in any
\* state, as it was, adds one available record for each configured host id
\* that had none, and run again with the same list changes nothing more.
SeedingIsIdempotent ==
    [][\A ids \in DedicatedHostIDs :
          Seed(ids)
          => /\ \A h \in HostIds :
                   hosts[h].state # "none" => hosts'[h] = hosts[h]
             /\ \A h \in HostIds :
                   hosts[h].state = "none"
                   => hosts'[h] = IF \E k \in 1..Len(ids) : ids[k] = h
                                  THEN [NoHost EXCEPT !.state = "available"]
                                  ELSE NoHost
             /\ SeedDedicatedHosts(ids, hosts') = hosts'
      ]_vars

\* the table was seeded while one host was allocated to an instance
SeededBesideAllocatedHost ==
    /\ \A s \in Slots : slot[s].op = "idle"
    /\ hosts["h1"].state = "allocated" /\ hosts["h1"].cur \in InstIds
    /\ hosts["h2"] = [NoHost EXCEPT !.state = "available"]
    /\ SeedDedicatedHosts(<<"h1", "h2", "h1">>, hosts) = hosts

\* C19: Publish never waits for a subscriber: a send to a full channel drops
\* the event for that subscriber and touches nothing else, a send to a
\* channel with room delivers it, the ring buffer holds the event, and when
\* Publish is over every subscriber it copied that is still subscribed and
\* whose channel was not full has received the event.
PublishDropsOnlyForFull ==
    [][\A x \in Subscribers :
          PublishSend(x)
          => /\ \A y \in bus.todo : ENABLED PublishSend(y)
             /\ bus'.buffer = bus.buffer
             /\ \E k \in 1..Len(bus.buffer) : bus.buffer[k] = bus.event
             /\ \A y \in Subscribers \ {x} : bus'.subscribers[y] = bus.subscribers[y]
             /\ (bus.subscribers[x].state = "open" /\ Len(bus.subscribers[x].ch) >= ChanCap)
                => bus'.subscribers[x] = bus.subscribers[x]
             /\ (bus.subscribers[x].state = "open" /\ Len(bus.subscribers[x].ch) < ChanCap)
                => bus'.subscribers[x].ch = Append(bus.subscribers[x].ch, bus.event)
             /\ bus'.pc = "idle"
                => \A y \in bus.subs :
                      (bus'.subscribers[y].state = "open" /\ y \notin bus'.full)
                      => y \in bus'.got
      ]_vars

\* the last n events published, in publish order
Latest(n) == [k \in 1..n |-> bus.count - n + k]

\* C20 as stated: the ring buffer holds at most bufferSize events, the most
\* recently published ones in publish order; Recent(limit) returns the last
\* min(limit, held) of them in publish order, all of them when limit <= 0;
\* and Recent(N) right after N publishes returns exactly those N events.
RecentReturnsAllPublished ==
    /\ Len(bus.buffer) <= BufferSize
    /\ bus.buffer = Latest(Len(bus.buffer))
    /\ \A limit \in Limits :
          Recent(bus.buffer, limit) =
              Latest(IF limit <= 0 THEN Len(bus.buffer) ELSE Min(limit, Len(bus.buffer)))
    /\ bus.count >= 1 => Recent(bus.buffer, bus.count) = [k \in 1..bus.count |-> k]

\* C20, amended: the ring buffer holds the last min(published, bufferSize)
\* events in publish order; Recent(limit) returns the last min(limit, held)
\* of them in publish order, all of them when limit <= 0; Recent(N) right
\* after N publishes returns exactly those N events when N <= bufferSize,
\* and only the last bufferSize of them when N is larger.
RecentReturnsNewest ==
    /\ Len(bus.buffer) = Min(bus.count, BufferSize)
    /\ bus.buffer = Latest(Len(bus.buffer))
    /\ \A limit \in Limits :
          Recent(bus.buffer, limit) =
              Latest(IF limit <= 0 THEN Len(bus.buffer) ELSE Min(limit, Len(bus.buffer)))
    /\ bus.limit # NoLimit
       => bus.recent = Latest(IF bus.limit <= 0 THEN Len(bus.buffer)
                              ELSE Min(bus.limit, Len(bus.buffer)))
    /\ (bus.count >= 1 /\ bus.count <= BufferSize)
       => Recent(bus.buffer, bus.count) = [k \in 1..bus.count |-> k]
    /\ bus.count > BufferSize
       => Recent(bus.buffer, bus.count) = Latest(BufferSize)

\* Recent(N) was called right after N publishes, N above the buffer size,
\* and returned the last bufferSize events
RecentAfterOverflow ==
    /\ bus.count > BufferSize
    /\ bus.limit = bus.count
    /\ Len(bus.recent) = BufferSize
    /\ bus.recent = Latest(BufferSize)
    /\ bus.recent[1] # 1

\* C21: the events a subscriber takes from its channel come in the order the
\* publisher published them: each one is later in the publish order than
\* every event that subscriber took before, and the events waiting in a
\* channel are in publish order.
SubscriberSeesPublishOrder ==
    [][\A x \in Subscribers :
          /\ Receive(x) => bus'.subscribers[x].seen > bus.subscribers[x].seen
          /\ \A k \in 1..Len(bus'.subscribers[x].ch) :
                /\ bus'.subscribers[x].ch[k] > bus'.subscribers[x].seen
                /\ k > 1 => bus'.subscribers[x].ch[k] > bus'.subscribers[x].ch[k - 1]
      ]_vars

\* a subscriber took an event after having lost the one before it
ReceivedAcrossGap ==
    \E x \in Subscribers :
        /\ bus.subscribers[x].seen >= 1
        /\ bus.subscribers[x].ch # <<>>
        /\ Head(bus.subscribers[x].ch) > bus.subscribers[x].seen + 1

\* the cloud_instances table with no row
NoStore == [i \in InstIds |-> NoInst]

\* C22: for an instance a registered provisioner can see, GetInstance
\* returns the same record (state, platform, host, rate, accrued cost) from
\* the store as it returns when only the backend has it; and it finds no
\* instance only when neither the store nor a provisioner knows the id.
GetInstanceSameFromStoreOrBackend ==
    \A i \in InstIds :
        /\ (store[i].state # "absent" /\ Visible(backend[i]))
           => LET s == GetInstance(store, backend, i)
                  b == GetInstance(NoStore, backend, i)
              IN /\ s.state = b.state
                 /\ s.platform = b.platform
                 /\ s.host = b.host
                 /\ s.rate = b.rate
                 /\ s.accrued = b.accrued
        /\ GetInstance(store, backend, i).state = "absent"
           <=> (store[i].state = "absent" /\ ~Visible(backend[i]))

\* C23: a successful Start, Stop or Terminate saves the state running,
\* stopped or terminated and publishes instance.running, instance.stopped or
\* instance.terminated for that instance; a failing provisioner call leaves
\* the stored record as it was and publishes nothing.
MutationSavesAndPublishes ==
    [][\A s \in Slots :
          /\ SaveMutation(s)
             => /\ last'.result = "ok"
                /\ store'[slot[s].id].state =
                      (CASE slot[s].op = "start" -> "running"
                         [] slot[s].op = "stop" -> "stopped"
                         [] slot[s].op = "terminate" -> "terminated")
                /\ published' =
                      {<<CASE slot[s].op = "start" -> "instance.running"
                            [] slot[s].op = "stop" -> "instance.stopped"
                            [] slot[s].op = "terminate" -> "instance.terminated",
                         slot[s].id>>}
          /\ \A ok \in BOOLEAN :
                (CallProvisioner(s, ok) /\ slot'[s] = IdleSlot)
                => /\ last'.result # "ok"
                   /\ store' = store
                   /\ published' = {}
      ]_vars

\* C24: for an instance on the container backend a successful StopInstance
\* ends as a TerminateInstance does: the pod is deleted, the stored state is
\* terminated, instance.terminated is published, and the instance no longer
\* counts toward the quota.
ContainerStopIsTerminate ==
    [][\A s \in Slots :
          (SaveMutation(s) /\ slot[s].op = "stop" /\ slot[s].inst.platform = "linux")
          => /\ backend'[slot[s].id] = NoBackend
             /\ store'[slot[s].id].state = TargetState("terminate")
             /\ published' = {<<e, slot[s].id>> : e \in EventOf("terminate")}
             /\ CountCloudInstancesByTeam(store') = CountCloudInstancesByTeam(store) - 1
      ]_vars

StopClosesOnceAndLoopExits ==
    /\ [](/\ mon.closes <= 1
          /\ mon.stops >= 1 => (mon.closed /\ mon.closes = 1)
          /\ StopCalls = 0 => (~mon.closed /\ mon.closes = 0))
    /\ (mon.stops >= 1 /\ mon.loop # "none") ~> (mon.loop = "exited")

\* Stop was called again and again, and the loop has exited
StoppedRepeatedly ==
    /\ mon.stops = MaxStops
    /\ mon.closes = 1
    /\ mon.loop = "exited"

\* C27: once a Stop has returned the loop begins no new tick, even if the
\* ticker has fired; a tick that is running goes through its four passes.
NoTickAfterStop ==
    [][/\ mon.stops >= 1 => ~LoopTick
       /\ mon.loop \in {"cleanup", "sync", "accrue", "release"}
          => (mon'.loop # mon.loop => mon'.loop = NextPass(mon.loop))
      ]_vars

\* C28: in the accrual pass ReportUsage is called once for each instance
\* whose accrual was saved, right after the save and with the rate of that
\* instance; whether it succeeds or fails, the saved accrued_cost_cents
\* stays and the loop goes on with the instances still listed.
UsageReportedOncePerAccrual ==
    [][\A s \in Slots :
          /\ saveAccrued(s)
             => /\ slot'[s].pc = "report"
                /\ slot'[s].id = slot[s].id
                /\ store'[slot[s].id].accrued > 0
          /\ (slot'[s].pc = "report" /\ slot[s].pc # "report") => saveAccrued(s)
          /\ slot[s].pc = "report"
             => (slot'[s] # slot[s] => \E ok \in BOOLEAN : reportUsage(s, ok))
          /\ \A ok \in BOOLEAN :
                reportUsage(s, ok)
                => /\ store' = store
                   /\ last'.op = "accrue"
                   /\ last'.result = (IF ok THEN "usage-reported" ELSE "usage-report-failed")
                   /\ slot'[s].rate = store[slot[s].id].rate
                   /\ slot'[s].pc = "loop"
                   /\ slot[s].id \notin Listed(slot'[s])
                   /\ Listed(slot'[s]) = Listed(slot[s]) \ {slot[s].id}
      ]_vars

\* a ReportUsage failed: the accrual it followed is in the store and the
\* other listed instance is still to be charged
ReportFailedLoopGoesOn ==
    \E s \in Slots :
        /\ last.op = "accrue" /\ last.result = "usage-report-failed"
        /\ slot[s].op = "accrue" /\ slot[s].pc = "loop"
        /\ store[slot[s].id].accrued > 0
        /\ Listed(slot[s]) # {}

\* C29: one accrual pass raises the accrued_cost_cents of a running
\* instance with hourly_rate_cents >= 1 by at least 1 cent, whatever the
\* positive monitor interval.
AccrualAddsAtLeastOneCent ==
    [][\A i \in InstIds :
          (AccrualPass(i) /\ store[i].rate >= 1 /\ mon.interval > 0)
          => store'[i].accrued >= store[i].accrued + 1
      ]_vars

\* rate 1 under the 30 s interval: one pass added a cent
OneCentForSmallRate ==
    \E i \in InstIds :
        /\ store[i].state = "running"
        /\ store[i].rate = 1
        /\ mon.interval = 30
        /\ store[i].accrued = 1

\* C30: one accrual pass adds exactly max(1, round(hourly_rate_cents x
\* interval_hours)) cents, round being rounding to the nearest integer.
AccrualAddsRoundedCents ==
    [][\A i \in InstIds :
          AccrualPass(i)
          => LET rounded == (2 * store[i].rate * mon.interval + 3600) \div 7200
             IN store'[i].accrued =
                   store[i].accrued + (IF rounded < 1 THEN 1 ELSE rounded)
      ]_vars

\* C31: the passes of a tick run one after the other in the order stale
\* cleanup, state sync, cost accrual, idle-host release: the tick leaves
\* what the four passes composed in that order leave, and an instance
\* that the tick found stored as running and that state sync moved to another
\* state has the accrued_cost_cents after the tick that it had before.
PassesInOrderNoChargeAfterSync ==
    [][TickStep =>
          /\ \E ok \in [InstIds -> BOOLEAN] :
                LET w1 == cleanupStaleProvisioning(World, ListCloudInstances(store, "provisioning"), ok)
                    w2 == syncInstanceStates(w1, ListCloudInstances(w1.store, "running"))
                    w3 == accrueUsageCosts(w2, ListCloudInstances(w2.store, "running"))
                    w4 == releaseIdleHosts(w3)
                IN store' = w4.store /\ hosts' = w4.hosts /\ backend' = w4.backend
          /\ \A i \in InstIds :
                (store[i].state = "running" /\ store'[i].state # "running")
                => store'[i].accrued = store[i].accrued
      ]_vars

\* a tick found a running instance with a rate stopped at the provider (the
\* Stop request has not saved yet), stored it as stopped and charged nothing
SyncedOutUncharged ==
    \E i \in InstIds :
        /\ store[i].state = "stopped" /\ backend[i].state = "stopped"
        /\ store[i].rate > 0 /\ store[i].accrued = 0
        /\ slot["a"].op = "stop" /\ slot["a"].pc = "writeback" /\ slot["a"].id = i
        /\ slot["a"].inst.state = "running"

\* C32: the state-sync pass leaves every instance that was stored as running
\* and whose provisioner reported another live state stored in that live
\* state, with terminated_at set and instance.terminated published when the
\* live state is terminated, and instance.failed published when it is failed;
\* every other instance (lookup failed, live state unchanged) keeps its
\* record and has no event.
SyncPassSavesLiveState ==
    [][syncPass =>
          \A i \in InstIds :
              LET inst == store[i]
                  b == backend[i]
                  live == LiveState(b)
                  found == /\ getProvisioner(inst.platform)
                           /\ b.platform = inst.platform /\ Visible(b)
              IN
              IF inst.state = "running" /\ found /\ live # "running"
              THEN /\ store'[i].state = live
                   /\ live = "terminated" =>
                         /\ store'[i].terminatedAt
                         /\ <<"instance.terminated", i>> \in published'
                   /\ live = "failed" => <<"instance.failed", i>> \in published'
              ELSE /\ store'[i] = store[i]
                   /\ \A e \in published' : e[2] # i
      ]_vars

\* the sync pass has stored a running instance as stopped, the provider
\* having stopped it for a Stop request that has not saved yet
SyncStoredStopped ==
    \E i \in InstIds :
        /\ mon.loop = "accrue" /\ last = NoRequest /\ published = {}
        /\ store[i].state = "stopped" /\ backend[i].state = "stopped"
        /\ slot["a"].op = "stop" /\ slot["a"].pc = "writeback" /\ slot["a"].id = i
        /\ slot["a"].inst.state = "running"

\* C33: the stale-cleanup pass publishes instance.failed (reason
\* provisioning_timeout) for an instance if and only if the instance was
\* stored as provisioning with created_at older than now - provisioning_timeout;
\* a provisioning instance within the timeout and an instance in any other
\* state keep their records.
CleanupFailsExactlyTheStale ==
    [][(\E ok \in [InstIds -> BOOLEAN] : cleanupPass(ok)) =>
          \A i \in InstIds :
              LET old == /\ store[i].state = "provisioning"
                         /\ store[i].createdAge > ProvisioningTimeout
              IN /\ (<<"instance.failed", i>> \in published') <=> old
                 /\ ~old => store'[i] = store[i]
      ]_vars

\* the cleanup pass has terminated an instance that was provisioning for
\* longer than the timeout, and published instance.failed for it
StaleCleanedAndPublished ==
    \E i \in InstIds :
        /\ mon.loop = "sync" /\ last = NoRequest
        /\ published = {<<"instance.terminated", i>>, <<"instance.failed", i>>}
        /\ store[i].state = "terminated"
        /\ store[i].createdAge > ProvisioningTimeout

\* C34: when the provisioner's CreateInstance succeeded and the store write
\* of the create failed, the instance the request returned is eventually
\* recorded in the store, the monitor's ticks going on and the store writing
\* again.
PersistFailureReconciled ==
    \A i \in InstIds :
        (/\ last.op = "create" /\ last.result = "ok" /\ "write-failed" \in last.fx
         /\ published = {<<"instance.provisioning", i>>}
         /\ backend[i].state \in {"pending", "running"})
        ~> (store[i].state # "absent")

\* C35: a monitor tick that begins with no request in flight and with an
\* instance whose stored state differs from the state of the backend (the
\* live state of an instance the provider holds, terminated for one it no
\* longer holds) leaves the stored state equal to the backend's.
TickReconcilesStoredState ==
    [][(TickStep /\ \A s \in Slots : slot[s].op = "idle") =>
          \A i \in InstIds :
              LET gone(b) == b.state \in {"none", "terminated"}
                  true(b) == IF gone(b) THEN "terminated" ELSE LiveState(b)
              IN (store[i].state # "absent" /\ store[i].state # true(backend[i]))
                 => store'[i].state = true(backend'[i])
      ]_vars

\* C36: a CreateInstance that is rejected by the quota check, by billing
\* (unreachable or denied) or for want of a provisioner for the platform
\* publishes no event, calls no provisioner and writes nothing to the store:
\* the request ends at once with its error.
RejectedCreateDoesNothing ==
    [][\A s \in Slots, p \in Platforms, resp \in BillingResponses :
          (/\ CreateInstance(s, p, resp)
           /\ enabled
           /\ \/ Cardinality({i \in InstIds :
                     store[i].state \notin {"absent", "terminated", "failed"}})
                     >= MaxInstancesPerTeam
              \/ resp # "authorized"
              \/ p \notin Registered)
          => /\ published' = {}
             /\ store' = store /\ hosts' = hosts /\ backend' = backend
             /\ slot'[s].op = "idle"
             /\ last'.op = "create"
             /\ last'.result \in {"max-instances-reached", "billing-service-unavailable",
                                  "billing-not-authorized", "invalid-platform"}
             /\ last'.fx \cap {"provisioner", "backend", "write", "event"} = {}
      ]_vars

\* a create authorized by billing was rejected for its platform, with
\* nothing published
RejectedForPlatform ==
    /\ last.op = "create" /\ last.result = "invalid-platform"
    /\ last.fx = {"store", "billing"}
    /\ published = {}

\* C37: whatever the interleaving of Publish with Unsubscribe, Publish never
\* attempts a send on a subscriber channel that Unsubscribe has closed.
PublishNeverSendsOnClosed ==
    [][\A x \in Subscribers :
          PublishSend(x) => bus.subscribers[x].state # "closed"
      ]_vars

\* C38: once TerminateInstance has saved an instance as terminated, no step
\* of a monitor pass or of a request that read the record earlier saves it
\* as running or stopped: the stored state stays terminated.
TerminatedStaysTerminated ==
    [][\A i \in InstIds :
          store[i].state = "terminated" => store'[i].state = "terminated"
      ]_vars

\* C39: in every reachable state the number of stored instances of the team
\* in a non-terminal state is at most max_instances_per_team, also when
\* several CreateInstance requests of the team run at once.
StoredInstancesWithinQuota ==
    Cardinality({i \in InstIds : store[i].state \notin {"absent", "terminated", "failed"}})
        <= mon.maxPerTeam

\* C40: a client of the event stream (Subscribe, then the recent events,
\* then the events of its channel) is never sent the same event twice,
\* whatever Publish calls run beside it.
StreamSendsNoEventTwice ==
    \A x \in Subscribers :
        \A j, k \in DOMAIN bus.subscribers[x].sent :
            j # k => bus.subscribers[x].sent[j] # bus.subscribers[x].sent[k]
====
